---- MODULE Spec2Model ----
(***************************************************************************)
(* Session verification gateway of the session service                     *)
(* (VerifyDeviceInfoMiddleware.dispatch), the Redis session store client   *)
(* (InitRedis) and the fingerprint generator, with session issuance        *)
(* (SessionController.create_session) and logout of the auth service,      *)
(* modelled as a state machine.                                            *)
(*                                                                         *)
(* Python values are tagged tuples: <<"str", s>>, <<"int", n>>,            *)
(* <<"null">>, <<"list">>, <<"dict", P>> with P a set of <<key, value>>    *)
(* pairs.  An optional value (a header, a cookie, the peer address) is     *)
(* the empty tuple when absent and a one-element tuple when present.       *)
(***************************************************************************)
EXTENDS Integers, Sequences, FiniteSets, TLC

VARIABLES
    store,       \* Redis: session_id -> [present, val (bytes), ttl (seconds left)]
    absence,     \* history: why a key holds no entry ("never", "deleted", "expired", "-")
    since_write, \* history: seconds from the last write of a key to now or to its expiry
    reachable,   \* whether the Redis server answers
    pc,          \* position of dispatch: "idle", "start", "fetch", "check", "done"
    req,         \* the request being handled
    fingerprint, \* dispatch's local: fingerprint recomputed from the request
    got,         \* get_session's local byted_data: the reply of r.get (and the key asked)
    branch,      \* the return statement dispatch left through
    forwarded,   \* call_next(request) was invoked for the request
    resp,        \* the response dispatch returned
    no_session_resp, \* history: the response of the last denial for a missing session
    saved,       \* history: the session data of the last save or update an entry holds
    op,          \* the last call of a store client, of issuance or of logout, and its result
    db           \* the committed rows of the auth service's database, per table

redis == <<store, absence, since_write, saved>>
call == <<pc, req, fingerprint, got, branch, forwarded, resp, no_session_resp>>
vars == <<store, absence, since_write, reachable, pc, req, fingerprint, got, branch,
          forwarded, resp, no_session_resp, saved, op, db>>

---------------------------------------------------------------------------
(* Optional values *)
None == <<>>
Some(x) == <<x>>
Option(S) == {None} \cup {Some(x) : x \in S}

---------------------------------------------------------------------------
(* Bounds of the model *)
TickSeconds == 30

(* Program constants *)
TTL == 60

(* Configuration *)
excluded_paths ==
    {"/docs", "/redoc", "/openapi.json", "/health", "/health/", "/auth", "/", "/verified"}

auth_url == "AUTH_URL"

not_found == <<"str", "Does Not Exist!">>

---------------------------------------------------------------------------
(* Input domains *)
Keys == {"s1", "s2"}
IssuedKeys == {"s1"}    \* the session ids that are ever written; "s2" is never issued
Paths == {"/app", "/health"}
IPs == {"10.0.0.1", "10.0.0.2"}
Hosts == {"10.0.0.1"}
UserAgents == {"Mozilla/5.0"}
Languages == {"en-US"}

Requests ==
    [path : Paths, cookie : Option(Keys), xff : Option(IPs),
     ua : Option(UserAgents), al : Option(Languages), client : Option(Hosts)]

---------------------------------------------------------------------------
(* utils/extract_info.py *)
extract_info(request) ==
    [user_agent |-> IF request.ua = None THEN "Unknown" ELSE request.ua[1],
     accept_language |-> IF request.al = None THEN "" ELSE request.al[1],
     x_forwarded_for |->
        IF request.xff = None
        THEN (IF request.client # None THEN request.client[1] ELSE "Unknown")
        ELSE request.xff[1]]

(* hashlib.sha256(raw).hexdigest(): an injective function of the hashed string *)
sha256_hexdigest(raw) == "sha256(" \o raw \o ")"

(* service/security/core/fingerprint.py *)
generate_fingerprint(info) ==
    sha256_hexdigest(info.x_forwarded_for \o "|" \o info.user_agent \o "|" \o info.accept_language)

---------------------------------------------------------------------------
(* json.dumps / json.loads and the bytes kept in Redis.                    *)
(* Bytes are <<"utf8", doc>> for the encoding of a JSON document and       *)
(* <<"raw", s>> for bytes that are not a JSON document.                    *)
key_str(k) == IF k[1] = "int" THEN ToString(k[2]) ELSE k[2]

json_dumps(v) ==
    IF v[1] = "dict"
    THEN <<"object", {<<key_str(p[1]), p[2]>> : p \in v[2]}>>
    ELSE v

(* A decoder that hands numbers back as strings *)
json_loads_ints_as_str(bytes) ==
    IF bytes[1] = "raw"
    THEN <<"raise", "JSONDecodeError">>
    ELSE IF bytes[2][1] = "object"
         THEN <<"ok", <<"dict", {<<<<"str", p[1]>>,
                                   IF p[2][1] = "int" THEN <<"str", ToString(p[2][2])>>
                                   ELSE p[2]>> : p \in bytes[2][2]}>>>>
         ELSE <<"ok", bytes[2]>>

json_loads(bytes) ==
    IF bytes[1] = "raw"
    THEN <<"raise", "JSONDecodeError">>
    ELSE IF bytes[2][1] = "object"
         THEN <<"ok", <<"dict", {<<<<"str", p[1]>>, p[2]>> : p \in bytes[2][2]}>>>>
         ELSE <<"ok", bytes[2]>>

encode(doc) == <<"utf8", doc>>

(* bool(byted_data): None and b"" are falsy *)
truthy(reply) == reply[1] = "bytes" /\ reply[2] # <<"raw", "">>

(* dict.get(key) with a str key *)
dict_get(d, key) ==
    IF \E p \in d[2] : p[1] = <<"str", key>>
    THEN (CHOOSE p \in d[2] : p[1] = <<"str", key>>)[2]
    ELSE <<"null">>

---------------------------------------------------------------------------
(* Session records and other values written to the store *)
SavedInfos ==
    {[user_agent |-> "Mozilla/5.0", accept_language |-> "en-US", x_forwarded_for |-> "10.0.0.1"],
     [user_agent |-> "Unknown", accept_language |-> "en-US", x_forwarded_for |-> "10.0.0.1"]}

session_keys(fp, user_id) ==
    <<"dict", {<< <<"str", "fingerprint">>, <<"str", fp>> >>,
               << <<"str", "user_id">>, <<"int", user_id>> >>}>>

SessionData ==
    {session_keys(generate_fingerprint(i), 42) : i \in SavedInfos} \cup {<<"dict", {}>>}

ForeignBytes ==
    {<<"raw", "not json">>, <<"raw", "">>, encode(<<"str", "x">>), encode(<<"list">>),
     encode(<<"null">>)}

(* A dict of session data whose key is an int *)
IntKeyed == <<"dict", {<< <<"int", 1>>, <<"str", "a">> >>}>>

(* The session data the clients of the store save *)
StoreData == SessionData \cup {IntKeyed}

(* The requests sessions are issued on, the user ids passed to             *)
(* create_session, and whether hashing fails                               *)
IssueRequests ==
    {r \in Requests : r.path = "/app" /\ r.cookie = None /\ r.al # None}
UserIds == {<<"int", 42>>, <<"str", "42">>, <<"str", "abc">>}
Hashings == {"ok", "raise"}

(* The field values SessionSchema is constructed with *)
SessionIds == {"", "s1"}
Fingerprints == {"", sha256_hexdigest("10.0.0.1|Mozilla/5.0|en-US")}

(* The requests of a logout *)
LogoutRequests ==
    {r \in Requests : /\ r.path = "/app" /\ r.xff = None /\ r.ua # None
                      /\ r.al # None /\ r.client # None}

NoEntry == [present |-> FALSE, val |-> <<"raw", "">>, ttl |-> 0]
(* A write whose expiry is twice the configured one *)
Entry_long_lived(bytes) == [present |-> TRUE, val |-> bytes, ttl |-> TTL + TTL]

Entry(bytes) == [present |-> TRUE, val |-> bytes, ttl |-> TTL]

---------------------------------------------------------------------------
(* Responses *)
NoResponse == [kind |-> "none", status |-> 0, location |-> "", body |-> ""]
HandlerResponse == [kind |-> "handler", status |-> 200, location |-> "", body |-> "handler"]
RedirectResponse(url, status_code) ==
    [kind |-> "redirect", status |-> status_code, location |-> url, body |-> ""]

(* A denial that tells a fingerprint mismatch from the other denials *)
denial_leaky(b) ==
    IF b = "mismatch"
    THEN [kind |-> "redirect", status |-> 302, location |-> auth_url, body |-> "mismatch"]
    ELSE RedirectResponse(auth_url, 302)

(* The response of each return statement of dispatch that does not forward: *)
(* lines 52, 67, 72 and 79                                                 *)
denial(b) == RedirectResponse(auth_url, 302)

---------------------------------------------------------------------------
(* The tables of the database, empty *)
NoRows == [user |-> {}, device_info |-> {}]

(* No client call has returned yet *)
NoCall ==
    [name |-> "none", key |-> "",
     request |-> [path |-> "/app", cookie |-> None, xff |-> None, ua |-> None,
                  al |-> None, client |-> None],
     user_id |-> <<"none">>,
     fingerprint |-> "", hashing |-> "-", result |-> <<"none">>, reply |-> <<"nofetch">>,
     age |-> 0, was |-> None, save |-> "-", fault |-> "-", before |-> NoEntry,
     stored |-> NoEntry, cleared |-> FALSE, cookie |-> None, made |-> {},
     info |-> [user_agent |-> "", accept_language |-> "", x_forwarded_for |-> ""],
     issued_info |-> [user_agent |-> "", accept_language |-> "", x_forwarded_for |-> ""],
     email |-> "", body |-> <<"return">>, commit |-> <<"return">>,
     trace |-> <<>>, rows |-> <<NoRows, NoRows>>]

Init ==
    /\ store = [k \in Keys |-> NoEntry]
    /\ absence = [k \in Keys |-> "never"]
    /\ since_write = [k \in Keys |-> 0]
    /\ reachable = TRUE
    /\ pc = "idle"
    /\ req = [path |-> "/app", cookie |-> None, xff |-> None, ua |-> None,
              al |-> None, client |-> None]
    /\ fingerprint = ""
    /\ got = <<"nofetch">>
    /\ branch = "-"
    /\ forwarded = FALSE
    /\ resp = NoResponse
    /\ no_session_resp = NoResponse
    /\ saved = [k \in Keys |-> None]
    /\ op = NoCall
    /\ db = NoRows

---------------------------------------------------------------------------
(* r.set(session_id, bytes, ex=60) *)
r_set(session_id, bytes) ==
    /\ reachable
    /\ store' = [store EXCEPT ![session_id] = Entry(bytes)]
    /\ absence' = [absence EXCEPT ![session_id] = "-"]
    /\ since_write' = [since_write EXCEPT ![session_id] = 0]

(* A write that keeps the fields of the entry it replaces unless the new   *)
(* data sets them                                                          *)
set_session_merge(session_id, session_data) ==
    LET old == IF store[session_id].present /\ store[session_id].val[1] = "utf8"
                  /\ store[session_id].val[2][1] = "object"
               THEN store[session_id].val[2][2] ELSE {}
        new == json_dumps(session_data)[2]
        kept == {p \in old : \A q \in new : q[1] # p[1]}
    IN  /\ r_set(session_id, encode(<<"object", new \cup kept>>))
        /\ saved' = [saved EXCEPT ![session_id] = Some(session_data)]

(* InitRedis.set_session; a call made while the server is unreachable      *)
(* raises and writes nothing                                               *)
set_session(session_id, session_data) ==
    /\ r_set(session_id, encode(json_dumps(session_data)))
    /\ saved' = [saved EXCEPT ![session_id] = Some(session_data)]

(* SaveSession.save_session *)
SaveSession(session_id, session_data) ==
    /\ set_session(session_id, session_data)
    /\ UNCHANGED <<reachable, call, op, db>>

(* UpdateSession.update_session *)
UpdateSession(session_id, session_data) ==
    /\ set_session(session_id, session_data)
    /\ UNCHANGED <<reachable, call, op, db>>

(* r.delete(session_id) *)
r_delete(session_id) ==
    /\ reachable
    /\ store' = [store EXCEPT ![session_id] = NoEntry]
    /\ absence' = [absence EXCEPT ![session_id] =
                      IF store[session_id].present THEN "deleted" ELSE @]
    /\ since_write' = [since_write EXCEPT ![session_id] = 0]
    /\ saved' = [saved EXCEPT ![session_id] = None]

(* A delete that raises for a key that holds no entry *)
DeleteSession_strict(session_id) ==
    /\ store[session_id].present
    /\ r_delete(session_id)
    /\ UNCHANGED <<reachable, call, op, db>>

(* A delete that empties the database *)
DeleteSession_flush(session_id) ==
    /\ reachable
    /\ store' = [k \in Keys |-> NoEntry]
    /\ absence' = [k \in Keys |-> IF store[k].present THEN "deleted" ELSE absence[k]]
    /\ since_write' = [k \in Keys |-> 0]
    /\ saved' = [k \in Keys |-> None]
    /\ UNCHANGED <<reachable, call, op, db>>

(* DeleteSession.delete_session -> InitRedis.delete_session; a call made   *)
(* while the server is unreachable raises and deletes nothing              *)
DeleteSession(session_id) ==
    /\ r_delete(session_id)
    /\ UNCHANGED <<reachable, call, op, db>>

(* Another client of the same Redis database writes bytes under a key *)
ForeignWrite(session_id, bytes) ==
    /\ r_set(session_id, bytes)
    /\ saved' = [saved EXCEPT ![session_id] = None]
    /\ UNCHANGED <<reachable, call, op, db>>

(* Time passes; Redis drops the keys whose expiry is reached *)
Expired(e) == e.present /\ e.ttl <= TickSeconds
Tick ==
    /\ \E k \in Keys : store[k].present
    /\ store' = [k \in Keys |->
                   IF ~store[k].present \/ Expired(store[k]) THEN NoEntry
                   ELSE [store[k] EXCEPT !.ttl = @ - TickSeconds]]
    /\ absence' = [k \in Keys |-> IF Expired(store[k]) THEN "expired" ELSE absence[k]]
    /\ since_write' = [k \in Keys |->
                   IF ~store[k].present THEN since_write[k]
                   ELSE since_write[k] + TickSeconds]
    /\ saved' = [k \in Keys |-> IF Expired(store[k]) THEN None ELSE saved[k]]
    /\ UNCHANGED <<reachable, call, op, db>>

(* The Redis server becomes unreachable / reachable again *)
RedisDown ==
    /\ reachable
    /\ reachable' = FALSE
    /\ UNCHANGED <<redis, call, op, db>>

RedisUp ==
    /\ ~reachable
    /\ reachable' = TRUE
    /\ UNCHANGED <<redis, call, op, db>>

---------------------------------------------------------------------------
(* The reply of r.get(session_id): the bytes, nil for a missing key (with  *)
(* the history of why it is missing, which Redis does not report), or a    *)
(* connection error; the last component is the key asked                   *)
r_get(session_id) ==
    IF ~reachable THEN <<"raise", "ConnectionError", session_id>>
    ELSE IF store[session_id].present THEN <<"bytes", store[session_id].val, session_id>>
    ELSE <<"nil", absence[session_id], session_id>>

(* A read that restarts the expiry window of the key (sliding expiry) *)
store_after_get_refresh(session_id) ==
    [store EXCEPT ![session_id] = IF @.present THEN [@ EXCEPT !.ttl = TTL] ELSE @]

(* A read that takes the entry out of the store *)
store_after_get_consume(session_id) == [store EXCEPT ![session_id] = NoEntry]

(* r.get reads: the entries and their expiry are as before *)
store_after_get(session_id) == store

(* A fetch that takes a decoded value that is falsy for a missing session *)
get_session_falsy_value(reply) ==
    IF reply[1] = "raise" THEN <<"raise", reply[2]>>
    ELSE IF truthy(reply) /\ json_loads(reply[2]) # <<"ok", <<"dict", {}>>>>
         THEN json_loads(reply[2])
    ELSE <<"ok", not_found>>

(* InitRedis.get_session / FetchSession.fetch_session on the reply of r.get *)
get_session(reply) ==
    IF reply[1] = "raise" THEN <<"raise", reply[2]>>
    ELSE IF truthy(reply) THEN json_loads(reply[2])
    ELSE <<"ok", not_found>>

(* dispatch line 44 *)
is_excluded(path) == path \in excluded_paths

(* A gateway that lets a request without a session cookie through *)
start_forward_no_cookie(request) ==
    IF request.client = None THEN "error"
    ELSE IF is_excluded(request.path) \/ request.cookie = None THEN "exempt"
    ELSE "fetch"

(* A gateway that looks for the cookie before it looks at the path *)
start_cookie_first(request) ==
    IF request.client = None THEN "error"
    ELSE IF request.cookie = None THEN "no_cookie"
    ELSE IF is_excluded(request.path) THEN "exempt"
    ELSE "fetch"

(* A gateway that looks up the session of an exempt request with a cookie *)
start_fetch_exempt(request) ==
    IF request.client = None THEN "error"
    ELSE IF request.cookie = None
    THEN (IF is_excluded(request.path) THEN "exempt" ELSE "no_cookie")
    ELSE "fetch"

(* dispatch lines 42-52: the log line that reads request.client.host, the  *)
(* exemption check and the cookie check                                    *)
start(request) ==
    IF request.client = None THEN "error"
    ELSE IF is_excluded(request.path) THEN "exempt"
    ELSE IF request.cookie = None THEN "no_cookie"
    ELSE "fetch"

(* dispatch line 65: session_data is None or isinstance(session_data, str) *)
invalid_session(session_data) == session_data[1] \in {"null", "str"}

(* A comparison that never reports a mismatch *)
fingerprint_mismatch_dropped(session_data, fp) == FALSE

(* dispatch line 70: session_data.get("fingerprint") != fingerprint *)
fingerprint_mismatch(session_data, fp) ==
    dict_get(session_data, "fingerprint") # <<"str", fp>>

(* A gateway that forwards when the stored fingerprint differs *)
verify_forward_mismatch(result, fp) ==
    IF result[1] = "raise" THEN "error"
    ELSE IF invalid_session(result[2]) THEN "invalid_session"
    ELSE IF result[2][1] # "dict" THEN "error"
    ELSE "verified"

(* A gateway that forwards when the session is not found *)
verify_forward_invalid(result, fp) ==
    IF result[1] = "raise" THEN "error"
    ELSE IF invalid_session(result[2]) THEN "verified"
    ELSE IF result[2][1] # "dict" THEN "error"
    ELSE IF fingerprint_mismatch(result[2], fp) THEN "mismatch"
    ELSE "verified"

(* A gateway that allows by default when a verification step fails *)
verify_fail_open(result, fp) ==
    IF result[1] = "raise" THEN "verified"
    ELSE IF invalid_session(result[2]) THEN "invalid_session"
    ELSE IF result[2][1] # "dict" THEN "verified"
    ELSE IF fingerprint_mismatch(result[2], fp) THEN "mismatch"
    ELSE "verified"

(* The branch dispatch takes on the result of fetch_session, lines 62-79 *)
verify(result, fp) ==
    IF result[1] = "raise" THEN "error"
    ELSE IF invalid_session(result[2]) THEN "invalid_session"
    ELSE IF result[2][1] # "dict" THEN "error"
    ELSE IF fingerprint_mismatch(result[2], fp) THEN "mismatch"
    ELSE "verified"

Return(b, fwd, r) ==
    /\ pc' = "done"
    /\ branch' = b
    /\ forwarded' = fwd
    /\ resp' = r

(* return await call_next(request), inside dispatch's try: the handler's   *)
(* response, or the except clause when the handler raises                  *)
call_next(b, handler_raises) ==
    IF handler_raises
    THEN Return("error", TRUE, denial("error"))
    ELSE Return(b, TRUE, HandlerResponse)

(* A request reaches the middleware *)
Receive(request) ==
    /\ pc \in {"idle", "done"}
    /\ pc' = "start"
    /\ req' = request
    /\ fingerprint' = ""
    /\ got' = <<"nofetch">>
    /\ branch' = "-"
    /\ forwarded' = FALSE
    /\ resp' = NoResponse
    /\ UNCHANGED <<redis, reachable, no_session_resp, op, db>>

(* dispatch lines 39-58: up to the await of fetch_session *)
Start(handler_raises) ==
    /\ pc = "start"
    /\ LET b == start(req) IN
         IF b = "exempt"
         THEN call_next("exempt", handler_raises) /\ UNCHANGED fingerprint
         ELSE IF b = "fetch"
         THEN /\ fingerprint' = generate_fingerprint(extract_info(req))
              /\ pc' = "fetch"
              /\ UNCHANGED <<branch, forwarded, resp>>
         ELSE Return(b, FALSE, denial(b)) /\ UNCHANGED fingerprint
    /\ UNCHANGED <<redis, reachable, req, got, no_session_resp, op, db>>

(* dispatch line 62: the round trip of r.get to the store *)
Fetch ==
    /\ pc = "fetch"
    /\ got' = r_get(req.cookie[1])
    /\ store' = store_after_get(req.cookie[1])
    /\ pc' = "check"
    /\ UNCHANGED <<absence, since_write, saved, reachable, req, fingerprint, branch,
                   forwarded, resp, no_session_resp, op, db>>

(* dispatch lines 63-79: the checks on session_data and the decision *)
Decide(handler_raises) ==
    /\ pc = "check"
    /\ LET b == verify(get_session(got), fingerprint) IN
         /\ IF b = "verified"
            THEN call_next("verified", handler_raises)
            ELSE Return(b, FALSE, denial(b))
         /\ no_session_resp' = IF got[1] = "nil" THEN denial(b) ELSE no_session_resp
    /\ UNCHANGED <<redis, reachable, req, fingerprint, got, op, db>>

---------------------------------------------------------------------------
(* A client of the store fetches a session: FetchSession.fetch_session.    *)
(* op keeps what it returned, the reply of r.get behind it, and what the   *)
(* histories said of the key when it was asked.                            *)
FetchSession(session_id) ==
    /\ store' = store_after_get(session_id)
    /\ op' = [NoCall EXCEPT !.name = "fetch", !.key = session_id,
                            !.result = get_session(r_get(session_id)),
                            !.reply = r_get(session_id),
                            !.age = since_write[session_id],
                            !.was = saved[session_id]]
    /\ UNCHANGED <<absence, since_write, saved, reachable, call, db>>

---------------------------------------------------------------------------
(* Session issuance of the auth service *)

(* auth-service utils/extract_info.py: `if not x_forwarded_for` *)
auth_extract_info(request) ==
    [user_agent |-> IF request.ua = None THEN "Unknown" ELSE request.ua[1],
     accept_language |-> IF request.al = None THEN "" ELSE request.al[1],
     x_forwarded_for |->
        IF request.xff = None \/ request.xff = Some("")
        THEN (IF request.client # None THEN request.client[1] ELSE "Unknown")
        ELSE request.xff[1]]

(* The fingerprint generator the auth service imports: the hex digest of   *)
(* the canonical string, or an internal error when hashing fails           *)
auth_generate_fingerprint(info, hashing) ==
    IF hashing = "raise" THEN <<"raise", "Exception">>
    ELSE <<"ok", generate_fingerprint(info)>>

(* SessionController.generate_session; session_id is str(uuid.uuid4()) *)
generate_session(request, session_id, hashing) ==
    LET info == auth_extract_info(request)
        fp == auth_generate_fingerprint(info, hashing)
    IN  IF fp[1] = "raise" THEN fp
        ELSE <<"ok", [fingerprint |-> fp[2], session_id |-> session_id, info |-> info]>>

(* int(s) for the strings of the model *)
Numerals == {<<"42", 42>>, <<"7", 7>>}
parse_int(s) ==
    IF \E n \in Numerals : n[1] = s
    THEN Some((CHOOSE n \in Numerals : n[1] = s)[2])
    ELSE None

(* pydantic's validation of a field declared int: an int is taken as it   *)
(* is, a str is parsed                                                     *)
int_field(v) ==
    IF v[1] = "int" THEN Some(v[2])
    ELSE IF v[1] = "str" THEN parse_int(v[2])
    ELSE None

(* SessionSchema(...) followed by validate_all() *)
SessionSchema(session_id, fp, user_id) ==
    IF session_id = "" THEN <<"raise", "ValidationError">>
    ELSE IF fp = "" THEN <<"raise", "ValidationError">>
    ELSE IF int_field(user_id) = None THEN <<"raise", "ValidationError">>
    ELSE <<"session", [session_id |-> session_id, fingerprint |-> fp,
                       user_id |-> int_field(user_id)[1]]>>

(* The dicts create_session returns *)
created(session) ==
    <<"result", TRUE, "Session created successfully", Some(session)>>
not_created ==
    <<"result", FALSE, "Error creating session! Please try again later.", None>>

(* What create_session does: the dict it returns, whether save_session was *)
(* called and how it ended, the step that failed, and the session_keys     *)
(* handed to save_session                                                  *)
Outcome(result, save, fault, keys) ==
    [result |-> result, save |-> save, fault |-> fault, session_keys |-> keys]

(* An issuance that reports success although save_session raised *)
create_session_swallow_save(request, user_id, session_id, hashing, store_up) ==
    LET generated == generate_session(request, session_id, hashing)
        session == SessionSchema(session_id, generated[2].fingerprint, user_id)
    IN  IF generated[1] = "raise" \/ session[1] = "raise"
        THEN Outcome(not_created, "not_called", "validation", <<"dict", {}>>)
        ELSE Outcome(created(session[2]), IF store_up THEN "ok" ELSE "raise", "none",
                     session_keys(session[2].fingerprint, session[2].user_id))

(* An issuance that saves the generated values before validating them *)
create_session_save_first(request, user_id, session_id, hashing, store_up) ==
    LET generated == generate_session(request, session_id, hashing)
        session == SessionSchema(session_id, generated[2].fingerprint, user_id)
        raw == <<"dict", {<< <<"str", "fingerprint">>, <<"str", generated[2].fingerprint>> >>,
                          << <<"str", "user_id">>, user_id >>}>>
    IN  IF generated[1] = "raise"
        THEN Outcome(not_created, "not_called", "fingerprint", <<"dict", {}>>)
        ELSE IF ~store_up THEN Outcome(not_created, "raise", "store", raw)
        ELSE IF session[1] = "raise" THEN Outcome(not_created, "ok", "validation", raw)
        ELSE Outcome(created(session[2]), "ok", "none", raw)

(* An issuance whose failure message names the step that failed *)
create_session_classified(request, user_id, session_id, hashing, store_up) ==
    LET generated == generate_session(request, session_id, hashing)
        session == SessionSchema(session_id, generated[2].fingerprint, user_id)
        failed(step) == <<"result", FALSE, "Error creating session: " \o step, None>>
    IN  IF generated[1] = "raise"
        THEN Outcome(failed("fingerprint"), "not_called", "fingerprint", <<"dict", {}>>)
        ELSE IF session[1] = "raise"
        THEN Outcome(failed("validation"), "not_called", "validation", <<"dict", {}>>)
        ELSE IF ~store_up
        THEN Outcome(failed("store"), "raise", "store",
                     session_keys(session[2].fingerprint, session[2].user_id))
        ELSE Outcome(created(session[2]), "ok", "none",
                     session_keys(session[2].fingerprint, session[2].user_id))

(* SessionController.create_session: every exception raised inside its    *)
(* try block ends in the same failure dict                                 *)
create_session(request, user_id, session_id, hashing, store_up) ==
    LET generated == generate_session(request, session_id, hashing) IN
    IF generated[1] = "raise"
    THEN Outcome(not_created, "not_called", "fingerprint", <<"dict", {}>>)
    ELSE LET session == SessionSchema(generated[2].session_id,
                                      generated[2].fingerprint, user_id) IN
         IF session[1] = "raise"
         THEN Outcome(not_created, "not_called", "validation", <<"dict", {}>>)
         ELSE LET keys == session_keys(session[2].fingerprint, session[2].user_id) IN
              IF ~store_up
              THEN Outcome(not_created, "raise", "store", keys)
              ELSE Outcome(created(session[2]), "ok", "none", keys)

(* SaveSession.save_session of the auth service: serialise the fields and  *)
(* write them under session_id with the fixed expiry                       *)
auth_save_session(session_id, session_data) ==
    set_session(session_id, session_data)

(* A caller issues a session for user_id on a request *)
CreateSession(request, user_id, session_id, hashing) ==
    LET r == create_session(request, user_id, session_id, hashing, reachable) IN
      /\ IF r.save = "ok"
         THEN auth_save_session(session_id, r.session_keys)
         ELSE UNCHANGED redis
      /\ op' = [NoCall EXCEPT !.name = "create_session", !.key = session_id,
                              !.request = request, !.user_id = user_id,
                              !.hashing = hashing, !.result = r.result,
                              !.save = r.save, !.fault = r.fault,
                              !.before = store[session_id],
                              !.stored = store'[session_id]]
      /\ UNCHANGED <<reachable, call, db>>

(* SessionSchema used on its own, with any field values *)
ValidateSession(session_id, fp, user_id) ==
    /\ op' = [NoCall EXCEPT !.name = "SessionSchema", !.key = session_id,
                            !.fingerprint = fp, !.user_id = user_id,
                            !.result = SessionSchema(session_id, fp, user_id)]
    /\ UNCHANGED <<redis, reachable, call, db>>

---------------------------------------------------------------------------
(* Logout of the auth service *)

(* config/cookie_config.delete_cookie(response) calls                      *)
(* response.delete_cookie with the entries of cookie_config: a Request has *)
(* no such method, and a response's delete_cookie takes a key and neither  *)
(* max_age nor expires                                                     *)
delete_cookie(object) ==
    IF object = "Request" THEN <<"raise", "AttributeError">>
    ELSE <<"raise", "TypeError">>

(* The logout route: delete_cookie(request), then                          *)
(* SessionController.delete_session(request), then a dict as the body of a *)
(* new response, which carries no Set-Cookie header                        *)
logout(request) ==
    LET cookie == delete_cookie("Request") IN
    IF cookie[1] = "raise"
    THEN [result |-> cookie, delete_session |-> FALSE, cleared |-> FALSE]
    ELSE [result |-> <<"ok", <<"str", "Logged out successfully">>>>,
          delete_session |-> TRUE, cleared |-> FALSE]

(* GET /logout is handled; SessionController.delete_session swallows every *)
(* exception of the store                                                  *)
Logout(request) ==
    LET r == logout(request) IN
      /\ IF r.delete_session /\ request.cookie # None /\ reachable
         THEN r_delete(request.cookie[1])
         ELSE UNCHANGED redis
      /\ op' = [NoCall EXCEPT !.name = "logout",
                              !.key = IF request.cookie = None THEN "" ELSE request.cookie[1],
                              !.request = request, !.result = r.result,
                              !.before = IF request.cookie = None THEN NoEntry
                                         ELSE store[request.cookie[1]],
                              !.stored = IF request.cookie = None THEN NoEntry
                                         ELSE store'[request.cookie[1]],
                              !.cleared = r.cleared]
      /\ UNCHANGED <<reachable, call, db>>

---------------------------------------------------------------------------
(* The database of the auth service and its transactions *)

Emails == {"test@test.com"}

(* How the body of a decorated function and the commit that follows end *)
Bodies == {<<"return">>, <<"raise", "IntegrityError">>, <<"raise", "ValueError">>}
Commits == {<<"return">>, <<"raise", "DatabaseError">>}

(* The row of the user table for an email; id is the autoincrement key *)
user_row(email) == [id |-> <<"int", 42>>, user_email |-> email]

(* The row of the device_info table built from the request of a sign-in *)
device_row(user_id, request) ==
    [user_id |-> user_id, ip |-> request.client[1],
     user_agent |-> request.ua[1], accept_language |-> request.al[1]]

(* A wrapper that neither rolls back nor re-raises when the commit fails *)
atomic_transaction_swallow_commit(body, commit) ==
    IF body[1] = "raise"
    THEN [trace |-> <<"Session", "func", "rollback", "close">>,
          outcome |-> body, committed |-> FALSE]
    ELSE [trace |-> <<"Session", "func", "commit", "close">>,
          outcome |-> <<"return">>, committed |-> commit[1] = "return"]

(* atomic_transaction.wrapper: the calls made on the session it opens, in  *)
(* order, how the decorated call ends, and whether the work of the body is *)
(* committed                                                               *)
atomic_transaction(body, commit) ==
    IF body[1] = "raise"
    THEN [trace |-> <<"Session", "func", "rollback", "close">>,
          outcome |-> body, committed |-> FALSE]
    ELSE IF commit[1] = "raise"
    THEN [trace |-> <<"Session", "func", "commit", "rollback", "close">>,
          outcome |-> commit, committed |-> FALSE]
    ELSE [trace |-> <<"Session", "func", "commit", "close">>,
          outcome |-> <<"return">>, committed |-> TRUE]

(* database/crud/user.create_user, decorated: add and flush the row *)
create_user(rows, email, body, commit) ==
    LET t == atomic_transaction(body, commit) IN
    [transaction |-> t,
     rows |-> IF t.committed THEN [rows EXCEPT !.user = @ \cup {user_row(email)}]
              ELSE rows]

(* database/crud/device_info.create_device_info, decorated *)
create_device_info(rows, device_info, body, commit) ==
    LET t == atomic_transaction(body, commit) IN
    [transaction |-> t,
     rows |-> IF t.committed THEN [rows EXCEPT !.device_info = @ \cup {device_info}]
              ELSE rows]

(* database/crud/user.get_user *)
get_user(rows, email) ==
    IF \E u \in rows.user : u.user_email = email
    THEN Some(CHOOSE u \in rows.user : u.user_email = email)
    ELSE None

---------------------------------------------------------------------------
(* Sign-in of the auth service *)

(* The step of a sign-in at which the database fails, if any *)
DbFaults == {"none", "user_body", "user_commit", "device_body", "device_commit"}
body_of(fault, table) ==
    IF fault = table \o "_body" THEN <<"raise", "IntegrityError">> ELSE <<"return">>
commit_of(fault, table) ==
    IF fault = table \o "_commit" THEN <<"raise", "DatabaseError">> ELSE <<"return">>

(* What a step of the sign-in hands back: its value, the rows of the       *)
(* database after it and the records it made                               *)
Step(value, rows, made) == [value |-> value, rows |-> rows, made |-> made]

(* UserController.create_user: the existing row of the email, or a new row *)
(* in a transaction; every exception ends in a failure dict                *)
UserController_create_user(rows, email, fault) ==
    LET existing_user == get_user(rows, email) IN
    IF existing_user # None THEN Step(<<"success", existing_user[1]>>, rows, {})
    ELSE LET c == create_user(rows, email, body_of(fault, "user"), commit_of(fault, "user")) IN
         IF c.transaction.outcome[1] = "raise" THEN Step(<<"failure">>, c.rows, {})
         ELSE Step(<<"success", user_row(email)>>, c.rows, {"user"})

(* SimpleAuth.update_user: the data of the user, or None *)
update_user(rows, email, fault) ==
    LET response == UserController_create_user(rows, email, fault) IN
    IF response.value[1] = "failure" THEN Step(<<"None">>, response.rows, response.made)
    ELSE response

(* DeviceSchema: user_agent, accept_language and ip are strings, ip an     *)
(* IPv4 address (every host of the model is one)                           *)
DeviceSchema(request) == request.ua # None /\ request.al # None

(* DeviceController.create_device: validate, then add the row in a         *)
(* transaction; every exception ends in a failure dict                     *)
DeviceController_create_device(rows, request, user_id, fault) ==
    IF ~DeviceSchema(request) THEN Step(<<"failure">>, rows, {})
    ELSE LET c == create_device_info(rows, device_row(user_id, request),
                                     body_of(fault, "device"), commit_of(fault, "device")) IN
         IF c.transaction.outcome[1] = "raise" THEN Step(<<"failure">>, c.rows, {})
         ELSE Step(<<"success", [user_agent |-> request.ua[1],
                                 accept_language |-> request.al[1],
                                 ip |-> request.client[1]]>>, c.rows, {"device"})

(* SimpleAuth.update_device: request.client.host is read first, which      *)
(* raises when the request has no client                                   *)
update_device(rows, request, user_id, fault) ==
    IF request.client = None THEN Step(<<"raise", "AttributeError">>, rows, {})
    ELSE LET device == DeviceController_create_device(rows, request, user_id, fault) IN
         IF device.value[1] = "failure" THEN Step(<<"None">>, device.rows, device.made)
         ELSE device

(* What SimpleAuth.sign_in and auth_process do: the dict returned, the     *)
(* rows of the database afterwards, the records made, and the call of      *)
(* save_session (whether it was made, how it ended, with which data)       *)
SignedIn(result, rows, made, save, keys) ==
    [result |-> result, rows |-> rows, made |-> made, save |-> save, session_keys |-> keys]

signed_in(session, device) ==
    <<"result", TRUE, "Sign in successful", Some([session |-> session, device_id |-> device])>>
not_signed_in ==
    <<"result", FALSE, "Failed to sign in! Please try again later.", None>>
rejected ==
    <<"result", FALSE, "Failed to sign in! Either email or password is incorrect.Verify your credentials and try again.", None>>
sign_in_failed ==
    <<"result", FALSE, "Failed to sign in! Please try again later. Verify your credentials and try again by confirming your email.", None>>

(* A sign-in that goes on to the session when the device was not recorded *)
auth_process_ignore_device(rows, request, email, fault, session_id, hashing, store_up) ==
    LET user == update_user(rows, email, fault) IN
    IF user.value[1] = "None"
    THEN SignedIn(not_signed_in, user.rows, user.made, "not_called", <<"dict", {}>>)
    ELSE LET device == update_device(user.rows, request, user.value[2].id[2], fault)
             session == create_session(request, user.value[2].id, session_id, hashing, store_up)
             made == user.made \cup device.made
         IN  IF ~session.result[2]
             THEN SignedIn(not_signed_in, device.rows, made, session.save,
                           session.session_keys)
             ELSE SignedIn(signed_in(session.result[4][1], <<"None">>), device.rows,
                           made \cup {"session"}, session.save, session.session_keys)

(* A sign-in that saves the session before it records the user's device *)
auth_process_session_first(rows, request, email, fault, session_id, hashing, store_up) ==
    LET user == update_user(rows, email, fault) IN
    IF user.value[1] = "None"
    THEN SignedIn(not_signed_in, user.rows, user.made, "not_called", <<"dict", {}>>)
    ELSE LET session == create_session(request, user.value[2].id, session_id, hashing,
                                       store_up)
             device == update_device(user.rows, request, user.value[2].id[2], fault)
             made == user.made \cup device.made
                        \cup (IF session.result[2] THEN {"session"} ELSE {})
         IN  IF ~session.result[2] \/ device.value[1] # "success"
             THEN SignedIn(not_signed_in, device.rows, made, session.save,
                           session.session_keys)
             ELSE SignedIn(signed_in(session.result[4][1], device.value[2]), device.rows,
                           made, session.save, session.session_keys)

(* SimpleAuth.auth_process: the user, then the device, then the session;   *)
(* a step that returns None or raises ends the sign-in in a failure dict   *)
auth_process(rows, request, email, fault, session_id, hashing, store_up) ==
    LET user == update_user(rows, email, fault) IN
    IF user.value[1] = "None"
    THEN SignedIn(not_signed_in, user.rows, user.made, "not_called", <<"dict", {}>>)
    ELSE LET device == update_device(user.rows, request, user.value[2].id[2], fault)
             made == user.made \cup device.made
         IN  IF device.value[1] # "success"
             THEN SignedIn(not_signed_in, device.rows, made, "not_called", <<"dict", {}>>)
             ELSE LET session == create_session(request, user.value[2].id, session_id,
                                                hashing, store_up) IN
                  IF ~session.result[2]
                  THEN SignedIn(not_signed_in, device.rows, made, session.save,
                                session.session_keys)
                  ELSE SignedIn(signed_in(session.result[4][1], device.value[2]),
                                device.rows, made \cup {"session"}, session.save,
                                session.session_keys)

(* SupabaseAuthService.sign_in: a dict whose success tells whether the     *)
(* identity provider accepted the email and password                       *)
supabase_sign_in(accepted) == [success |-> accepted]

(* SimpleAuthController.sign_in returns the provider's response when it    *)
(* succeeded, and nothing otherwise                                        *)
SimpleAuthController_sign_in(accepted) ==
    LET response == supabase_sign_in(accepted) IN
    IF response.success THEN Some(response) ELSE None

(* A sign-in that goes on to auth_process whatever the provider answered *)
sign_in_unchecked(rows, request, email, accepted, fault, session_id, hashing, store_up) ==
    auth_process(rows, request, email, fault, session_id, hashing, store_up)

(* SimpleAuth.sign_in: subscripting the controller's None raises, and the  *)
(* except clause turns it into a failure dict                              *)
sign_in(rows, request, email, accepted, fault, session_id, hashing, store_up) ==
    LET response == SimpleAuthController_sign_in(accepted) IN
    IF response = None
    THEN SignedIn(sign_in_failed, rows, {}, "not_called", <<"dict", {}>>)
    ELSE IF ~response[1].success
    THEN SignedIn(rejected, rows, {}, "not_called", <<"dict", {}>>)
    ELSE auth_process(rows, request, email, fault, session_id, hashing, store_up)

(* The signin route: the session_id cookie it sets on its response *)
signin(response_data) ==
    IF response_data[2] /\ response_data[4][1].session.session_id # ""
    THEN Some(response_data[4][1].session.session_id)
    ELSE None

(* POST /signin is handled *)
SignIn(request, email, accepted, fault, session_id, hashing) ==
    LET r == sign_in(db, request, email, accepted, fault, session_id, hashing, reachable) IN
      /\ IF r.save = "ok"
         THEN auth_save_session(session_id, r.session_keys)
         ELSE UNCHANGED redis
      /\ db' = r.rows
      /\ op' = [NoCall EXCEPT !.name = "signin", !.key = session_id,
                              !.request = request, !.email = email,
                              !.hashing = hashing,
                              !.result = r.result, !.save = r.save,
                              !.fault = IF accepted THEN fault ELSE "rejected",
                              !.before = store[session_id],
                              !.stored = store'[session_id],
                              !.cookie = signin(r.result), !.made = r.made,
                              !.rows = <<db, r.rows>>]
      /\ UNCHANGED <<reachable, call>>

(* A decorated function is called on its own; the unique user_uuid makes   *)
(* the flush of a second row for the same user raise                       *)
CreateUser(email, body, commit) ==
    LET c == create_user(db, email, body, commit) IN
      /\ get_user(db, email) # None => body[1] = "raise"
      /\ db' = c.rows
      /\ op' = [NoCall EXCEPT !.name = "create_user", !.email = email,
                              !.result = c.transaction.outcome,
                              !.body = body, !.commit = commit,
                              !.trace = c.transaction.trace,
                              !.rows = <<db, c.rows>>]
      /\ UNCHANGED <<redis, reachable, call>>

---------------------------------------------------------------------------
Next ==
    \/ \E k \in IssuedKeys, d \in SessionData : SaveSession(k, d)
    \/ \E k \in IssuedKeys, d \in SessionData : UpdateSession(k, d)
    \/ \E k \in Keys : DeleteSession(k)
    \/ \E k \in IssuedKeys, b \in ForeignBytes : ForeignWrite(k, b)
    \/ Tick
    \/ RedisDown
    \/ RedisUp
    \/ \E r \in Requests : Receive(r)
    \/ \E h \in BOOLEAN : Start(h)
    \/ Fetch
    \/ \E h \in BOOLEAN : Decide(h)

Spec == Init /\ [][Next]_vars

(* The store and its clients alone: sessions under both keys, saved,       *)
(* updated, deleted and fetched                                            *)
NextStore ==
    \/ \E k \in Keys, d \in StoreData : SaveSession(k, d)
    \/ \E k \in Keys, d \in StoreData : UpdateSession(k, d)
    \/ \E k \in Keys : DeleteSession(k)
    \/ \E k \in Keys : FetchSession(k)
    \/ Tick
    \/ RedisDown
    \/ RedisUp

SpecStore == Init /\ [][NextStore]_vars

(* Issuance and logout of the auth service against the store *)
NextIssue ==
    \/ \E r \in IssueRequests, u \in UserIds, k \in IssuedKeys, h \in Hashings :
          CreateSession(r, u, k, h)
    \/ \E k \in SessionIds, f \in Fingerprints, u \in UserIds : ValidateSession(k, f, u)
    \/ \E r \in LogoutRequests : Logout(r)
    \/ Tick
    \/ RedisDown
    \/ RedisUp

SpecIssue == Init /\ [][NextIssue]_vars

(* The two extract_info and generate_fingerprint on their own, on        *)
(* requests whose headers are absent, empty or set and on field values    *)
(* with and without the separator                                          *)
HeaderRequests ==
    [path : {"/app"}, cookie : {None}, xff : Option(IPs \cup {""}),
     ua : Option(UserAgents \cup {""}), al : Option(Languages \cup {""}),
     client : Option(Hosts)]

FieldValues == {"", "a", "b", "a|b"}
FieldInfos ==
    [user_agent : FieldValues, accept_language : FieldValues, x_forwarded_for : FieldValues]

(* extract_info of the auth service and of the session service on one request *)
ExtractInfo(request) ==
    /\ op' = [NoCall EXCEPT !.name = "extract_info", !.request = request,
                            !.issued_info = auth_extract_info(request),
                            !.info = extract_info(request)]
    /\ UNCHANGED <<redis, reachable, call, db>>

(* generate_fingerprint on one dict of device attributes *)
GenerateFingerprint(info) ==
    /\ op' = [NoCall EXCEPT !.name = "generate_fingerprint", !.info = info,
                            !.fingerprint = generate_fingerprint(info)]
    /\ UNCHANGED <<redis, reachable, call, db>>

NextFingerprint ==
    \/ \E r \in HeaderRequests : ExtractInfo(r)
    \/ \E i \in FieldInfos : GenerateFingerprint(i)

SpecFingerprint == Init /\ [][NextFingerprint]_vars

(* Sign-in of the auth service against the database and the store *)
SignInRequests == {r \in IssueRequests : r.xff = None}

NextSignIn ==
    \/ \E r \in SignInRequests, e \in Emails, a \in BOOLEAN, f \in DbFaults,
          k \in IssuedKeys, h \in Hashings : SignIn(r, e, a, f, k, h)
    \/ \E e \in Emails, b \in Bodies, c \in Commits : CreateUser(e, b, c)
    \/ Tick
    \/ RedisDown
    \/ RedisUp

SpecSignIn == Init /\ [][NextSignIn]_vars

---------------------------------------------------------------------------
(* Vocabulary of the properties *)
NonExempt == req.path \notin excluded_paths
HasCookie == req.cookie # None
RequestFingerprint == generate_fingerprint(extract_info(req))
RedirectedToAuth == resp.kind = "redirect" /\ resp.location = auth_url

(* The fetch made for the request returned a dict for the cookie's session_id *)
FetchedDict ==
    /\ got[1] = "bytes"
    /\ HasCookie
    /\ got[3] = req.cookie[1]
    /\ json_loads(got[2])[1] = "ok"
    /\ json_loads(got[2])[2][1] = "dict"

FetchedFingerprint == dict_get(json_loads(got[2])[2], "fingerprint")

(* The store holds, under session_id, a record with the request's fingerprint *)
MatchingEntry(session_id) ==
    /\ store[session_id].present
    /\ json_loads(store[session_id].val)[1] = "ok"
    /\ json_loads(store[session_id].val)[2][1] = "dict"
    /\ dict_get(json_loads(store[session_id].val)[2], "fingerprint")
          = <<"str", RequestFingerprint>>

(* C1: a request to a non-exempt path is forwarded only if its session_id  *)
(* cookie is present, the fetch made for it returned a dict for that       *)
(* session_id, and the fingerprint recomputed from the request equals the  *)
(* record's fingerprint; in every other case it is not forwarded.          *)
C1_FailClosed ==
    (forwarded /\ NonExempt) =>
        /\ HasCookie
        /\ FetchedDict
        /\ FetchedFingerprint = <<"str", RequestFingerprint>>

C1_Witness ==
    /\ pc = "done"
    /\ NonExempt
    /\ forwarded
    /\ branch = "verified"
    /\ resp = HandlerResponse

(* C2: a request to a non-exempt path whose cookie names a session saved   *)
(* with fingerprint F1 and whose attributes hash to F2 # F1 is redirected  *)
(* to the auth URL and not forwarded, also when only the IP differs.       *)
C2_MismatchDenied ==
    (/\ pc = "done"
     /\ NonExempt
     /\ FetchedDict
     /\ FetchedFingerprint[1] = "str"
     /\ FetchedFingerprint # <<"str", RequestFingerprint>>)
    => (RedirectedToAuth /\ ~forwarded)

C2_Witness ==
    /\ pc = "done"
    /\ NonExempt
    /\ FetchedDict
    /\ branch = "mismatch"
    /\ RedirectedToAuth
    /\ \E i \in SavedInfos :
          /\ FetchedFingerprint = <<"str", generate_fingerprint(i)>>
          /\ i.user_agent = extract_info(req).user_agent
          /\ i.accept_language = extract_info(req).accept_language
          /\ i.x_forwarded_for # extract_info(req).x_forwarded_for

(* C3: a request to a non-exempt path without a session_id cookie is       *)
(* redirected to the auth URL and not forwarded, whatever its headers and  *)
(* whatever the store holds.                                               *)
C3_NoCookieDenied ==
    (pc = "done" /\ NonExempt /\ ~HasCookie) => (RedirectedToAuth /\ ~forwarded)

C3_Witness ==
    /\ pc = "done"
    /\ NonExempt
    /\ ~HasCookie
    /\ branch = "no_cookie"
    /\ RedirectedToAuth
    /\ req.xff # None
    /\ MatchingEntry("s1")

(* C4: when the store holds no entry for the cookie's session_id at the    *)
(* time of the fetch (never saved, deleted or expired), the request to a   *)
(* non-exempt path is redirected to the auth URL, the same way in the      *)
(* three cases.                                                            *)
C4_AbsentDenied ==
    (pc = "done" /\ NonExempt /\ HasCookie /\ got[1] = "nil")
    => (/\ got[2] \in {"never", "deleted", "expired"}
        /\ got[3] = req.cookie[1]
        /\ branch = "invalid_session"
        /\ RedirectedToAuth
        /\ ~forwarded)

C4_Witness ==
    /\ pc = "done"
    /\ NonExempt
    /\ got = <<"nil", "expired", "s1">>
    /\ req.cookie = Some("s1")
    /\ RedirectedToAuth

(* C5 (as claimed): a request to a non-exempt path that presents the       *)
(* cookie of a live session saved with the fingerprint of the request's    *)
(* own attributes is forwarded: dispatch does not return from its first    *)
(* part, nor after the fetch of the matching record, without forwarding.   *)
C5_MatchForwarded ==
    [][(/\ pc # "done"
        /\ pc' = "done"
        /\ NonExempt
        /\ HasCookie
        /\ IF pc = "check"
           THEN FetchedDict /\ FetchedFingerprint = <<"str", RequestFingerprint>>
           ELSE MatchingEntry(req.cookie[1]))
       => forwarded']_vars

(* C6 (as claimed): a request whose path is one of excluded_paths is       *)
(* forwarded without a store fetch, whatever its cookies, headers and peer *)
(* address, an absent peer address included.                               *)
C6_ExemptForwarded ==
    (pc = "done" /\ ~NonExempt) => (forwarded /\ got = <<"nofetch">>)

(* C7: when a verification step of a request to a non-exempt path with a   *)
(* session cookie fails (the store is unreachable, the stored bytes are    *)
(* not valid JSON, or the decoded value is not a dict), dispatch returns   *)
(* the redirect to the auth URL and does not forward.                      *)
VerificationFailed ==
    \/ got[1] = "raise"
    \/ /\ got[1] = "bytes"
       /\ \/ json_loads(got[2])[1] = "raise"
          \/ json_loads(got[2])[2][1] # "dict"

C8_Denial307 ==
    (pc = "done" /\ branch \in {"no_cookie", "invalid_session", "mismatch"})
    => (resp.kind = "redirect" /\ resp.status = 307 /\ resp.location = auth_url)

(* C9: a denial for a fingerprint mismatch or an internal error is the     *)
(* same response (status, Location, body) as the denial returned earlier   *)
(* for a request whose session did not exist.                              *)
C9_DenialsAlike ==
    (pc = "done" /\ NonExempt /\ resp.kind = "redirect" /\ no_session_resp # NoResponse)
    => resp = no_session_resp

C9_Witness ==
    /\ pc = "done"
    /\ NonExempt
    /\ branch = "mismatch"
    /\ resp.kind = "redirect"
    /\ no_session_resp.kind = "redirect"

(* C10: no step of the gateway changes a stored value or a remaining       *)
(* time-to-live, and the time an entry has left is TTL minus the time      *)
(* since its last write, whatever was fetched in between.                  *)
C10_ReadOnly ==
    /\ [](\A k \in Keys : store[k].present => store[k].ttl = TTL - since_write[k])
    /\ [][pc' # pc => store' = store]_vars

C10_Witness ==
    /\ pc = "done"
    /\ branch = "verified"
    /\ got[1] = "bytes"
    /\ store["s1"].present
    /\ store["s1"].val = got[2]
    /\ since_write["s1"] > 0

---------------------------------------------------------------------------
(* Vocabulary of the properties of the store *)
Fetched == op.name = "fetch" /\ op.reply[1] # "raise"
SentinelReturned == op.result = <<"ok", not_found>>
StrKeyed(d) == \A p \in d[2] : p[1][1] = "str"
Written(k) == \E d \in StoreData : SaveSession(k, d) \/ UpdateSession(k, d)

(* C11: a fetch of a key made once TTL seconds have passed since its last  *)
(* save or update, with no write since, returns the not-found sentinel and *)
(* not the record; every save or update leaves the key with the full TTL   *)
(* ahead of it.                                                            *)
C11_Expiry ==
    /\ [](Fetched /\ op.age >= TTL => SentinelReturned)
    /\ [][\A k \in Keys : Written(k) =>
            store'[k].present /\ store'[k].ttl = TTL /\ since_write'[k] = 0]_vars

C11_Witness ==
    /\ Fetched
    /\ op.age >= TTL
    /\ op.reply[1] = "nil" /\ op.reply[2] = "expired"
    /\ SentinelReturned

(* C12 as claimed: a fetch after a save of any dict d, before expiry and   *)
(* with no write or delete in between, returns a dict equal to d.          *)
C12_RoundTrip ==
    Fetched /\ op.was # None => op.result = <<"ok", op.was[1]>>

(* C12 amended: the same for every dict d whose keys are strings.          *)
C12_RoundTripStrKeys ==
    Fetched /\ op.was # None /\ StrKeyed(op.was[1]) => op.result = <<"ok", op.was[1]>>

C12_Witness ==
    /\ Fetched
    /\ op.was # None /\ op.was[1][2] # {} /\ StrKeyed(op.was[1])
    /\ op.result = <<"ok", op.was[1]>>

(* C13: a fetch of a key that holds no entry, never written, deleted or    *)
(* expired, returns the sentinel string and does not raise; a fetch of a   *)
(* key that holds a saved record, the empty dict included, returns a value *)
(* that is not the sentinel.                                               *)
C13_SentinelDistinct ==
    /\ Fetched /\ op.reply[1] = "nil" => SentinelReturned
    /\ Fetched /\ op.was # None => op.result[1] = "ok" /\ ~SentinelReturned

C13_Witness ==
    /\ Fetched
    /\ op.was = Some(<<"dict", {}>>)
    /\ op.result = <<"ok", <<"dict", {}>>>>

(* C14: the value stored under a key is exactly the encoding of the        *)
(* complete data of the last save or update that reached the store, with   *)
(* nothing kept from an earlier write; a fetch returns the sentinel or the *)
(* complete data of one write.                                             *)
C14_LastWriteWins ==
    /\ \A k \in Keys : saved[k] # None =>
          store[k].present /\ store[k].val = encode(json_dumps(saved[k][1]))
    /\ Fetched => \/ SentinelReturned
                  \/ \E d \in StoreData : op.result = json_loads(encode(json_dumps(d)))

C14_Witness ==
    /\ Fetched /\ op.key = "s1"
    /\ op.was # None /\ op.was[1][2] # {}
    /\ saved["s1"] = Some(<<"dict", {}>>)
    /\ store["s1"].val = encode(json_dumps(<<"dict", {}>>))

(* C15: a delete of a key completes whether or not the key holds an entry, *)
(* leaves the key without an entry and, when the key held none, leaves the *)
(* store as it was; a key stays without an entry until a save or update of *)
(* it, and a fetch of a deleted key returns the sentinel.                  *)
C15_DeleteIdempotent ==
    /\ [](\A k \in Keys : reachable => ENABLED DeleteSession(k))
    /\ [](Fetched /\ op.reply[1] = "nil" /\ op.reply[2] = "deleted" => SentinelReturned)
    /\ [][\A k \in Keys :
            /\ DeleteSession(k) =>
                 /\ ~store'[k].present
                 /\ ~store[k].present => store' = store
            /\ ~store[k].present /\ store'[k].present => Written(k)]_vars

C15_Witness ==
    /\ Fetched
    /\ op.reply[1] = "nil" /\ op.reply[2] = "deleted"
    /\ SentinelReturned
    /\ ~store[op.key].present /\ absence[op.key] = "deleted"

(* C16: a save, update, delete or fetch of one key leaves the entry of     *)
(* every other key as it was, and a fetch returns the data saved under the *)
(* key it asked for.                                                       *)
C16_PerKey ==
    /\ [](Fetched /\ op.was # None =>
            op.result = json_loads(encode(json_dumps(op.was[1]))))
    /\ [][\A k \in Keys :
            Written(k) \/ DeleteSession(k) \/ FetchSession(k) =>
               \A j \in Keys \ {k} : store'[j] = store[j]]_vars

C16_Witness ==
    /\ store["s1"].present /\ store["s2"].present
    /\ store["s1"].val # store["s2"].val
    /\ Fetched /\ op.key = "s2"
    /\ saved["s2"] # None /\ op.result = <<"ok", saved["s2"][1]>>

---------------------------------------------------------------------------
(* Vocabulary of the properties of issuance and logout *)
Issued == op.name = "create_session"
Succeeded == op.result[2]
Returned == op.result[4][1]
Invalid == op.key = "" \/ op.fingerprint = "" \/ int_field(op.user_id) = None

(* C17: create_session returns success only when save_session completed   *)
(* for the session_id it returns and the store holds, under that id, the   *)
(* fingerprint and user_id of the returned record; when save_session       *)
(* raises, create_session returns success false.                           *)
C17_AllOrNothing ==
    Issued =>
      /\ Succeeded =>
           /\ op.save = "ok"
           /\ Returned.session_id = op.key
           /\ op.stored.present
           /\ json_loads(op.stored.val) =
                 <<"ok", session_keys(Returned.fingerprint, Returned.user_id)>>
      /\ op.save = "raise" => ~Succeeded

C17_Witness ==
    /\ Issued /\ Succeeded
    /\ op.user_id = <<"str", "42">>
    /\ op.stored.present /\ op.stored.ttl = TTL

C19_Classified ==
    Issued /\ ~Succeeded =>
      \A r \in IssueRequests, u \in UserIds, h \in Hashings, up \in BOOLEAN :
        LET other == create_session(r, u, op.key, h, up) IN
          other.fault \notin {"none", op.fault} => other.result # op.result

(* C19 amended: a failure at any of the three steps returns success false  *)
(* and the one message, the same for the three.                            *)
C19_FailureUniform ==
    Issued =>
      /\ op.fault \in {"fingerprint", "validation", "store"} => op.result = not_created
      /\ op.fault = "none" => Succeeded

C19_Witness ==
    /\ Issued /\ op.fault = "store" /\ op.save = "raise"
    /\ op.result = not_created

(* C20: once a logout request carrying a session cookie has been handled,  *)
(* the store holds no entry for that session id and the response clears    *)
(* the cookie.                                                             *)
C20_LogoutEnds ==
    op.name = "logout" /\ op.request.cookie # None =>
       ~op.stored.present /\ op.cleared


---------------------------------------------------------------------------
(* Sign-in: the last call is POST /signin *)
SignedInCall == op.name = "signin"
Rejected == op.fault = "rejected"
UserFailed == op.fault \in {"user_body", "user_commit"} /\ get_user(op.rows[1], op.email) = None
DeviceFailed ==
    \/ op.request.client = None
    \/ ~DeviceSchema(op.request)
    \/ op.fault \in {"device_body", "device_commit"}

(* C21: the signin route sets the session_id cookie only when the sign-in  *)
(* succeeded and the record of that session_id was saved in the store;     *)
(* when the credentials are rejected, the user or the device is not        *)
(* created, the fingerprint cannot be made or the store write fails, the   *)
(* response carries no session_id cookie.                                  *)
C21_CookieAfterSave ==
    SignedInCall =>
      /\ op.cookie # None =>
           /\ Succeeded
           /\ op.cookie[1] = op.key
           /\ op.save = "ok"
           /\ op.stored.present
           /\ json_loads(op.stored.val) =
                 <<"ok", session_keys(Returned.session.fingerprint,
                                      Returned.session.user_id)>>
      /\ (Rejected \/ UserFailed \/ DeviceFailed \/ op.hashing = "raise"
             \/ op.save = "raise") => op.cookie = None

C21_Witness ==
    /\ SignedInCall
    /\ op.cookie = Some("s1")
    /\ op.before.present /\ op.before.ttl < TTL
    /\ op.stored.present /\ op.stored.ttl = TTL
    /\ op.made = {"device", "session"}

(* C24: when the identity provider rejects the email and password, sign_in *)
(* returns success false and no user row, device row or session record is  *)
(* created.                                                                *)
C24_RejectedCreatesNothing ==
    (SignedInCall /\ Rejected) =>
      /\ ~Succeeded
      /\ op.made = {}
      /\ op.rows[2] = op.rows[1]
      /\ op.save = "not_called"
      /\ op.stored = op.before
      /\ op.cookie = None

C24_Witness ==
    /\ SignedInCall /\ Rejected
    /\ op.request.client # None /\ DeviceSchema(op.request) /\ op.hashing = "ok"
    /\ op.rows[1] = NoRows /\ db = NoRows
    /\ ~op.before.present /\ ~store[op.key].present
    /\ reachable

(* C29: in a sign-in save_session is called only once the user's row       *)
(* exists and the device row of this sign-in has been created; when the    *)
(* user or the device cannot be created the sign-in fails and no session   *)
(* is saved.                                                               *)
C29_SessionLast ==
    (SignedInCall /\ ~Rejected) =>
      /\ op.save # "not_called" =>
           /\ get_user(op.rows[2], op.email) # None
           /\ "device" \in op.made
           /\ device_row(42, op.request) \in op.rows[2].device_info
      /\ (UserFailed \/ DeviceFailed) =>
           /\ ~Succeeded
           /\ op.save = "not_called"
           /\ op.stored = op.before

C29_Witness ==
    /\ SignedInCall /\ Succeeded
    /\ op.made = {"user", "device", "session"}
    /\ op.rows[1] = NoRows
    /\ op.stored.present /\ ~op.before.present


---------------------------------------------------------------------------
(* Transactions: the last call is a decorated function called on its own *)
Transacted == op.name = "create_user"
Calls(method) == Cardinality({i \in DOMAIN op.trace : op.trace[i] = method})
Precedes(a, b) ==
    \A i, j \in DOMAIN op.trace : (op.trace[i] = a /\ op.trace[j] = b) => i < j

(* C25: a decorated call whose body and commit succeed commits once, does  *)
(* not roll back and then closes the session; when the body or the commit  *)
(* raises the session is rolled back once, the caller gets that exception  *)
(* and the database keeps none of the body's work; the session is closed   *)
(* once, last, on every path.                                              *)
C25_Lifecycle ==
    Transacted =>
      /\ Calls("close") = 1
      /\ op.trace[Len(op.trace)] = "close"
      /\ (op.body[1] = "return" /\ op.commit[1] = "return") =>
            /\ Calls("commit") = 1
            /\ Calls("rollback") = 0
            /\ Precedes("func", "commit")
            /\ op.result = <<"return">>
            /\ op.rows[2].user = op.rows[1].user \cup {user_row(op.email)}
      /\ (op.body[1] = "raise" \/ op.commit[1] = "raise") =>
            /\ Calls("rollback") = 1
            /\ op.result = (IF op.body[1] = "raise" THEN op.body ELSE op.commit)
            /\ op.rows[2] = op.rows[1]

C25_Witness ==
    /\ Transacted
    /\ op.body = <<"return">>
    /\ op.commit = <<"raise", "DatabaseError">>
    /\ op.trace = <<"Session", "func", "commit", "rollback", "close">>
    /\ db = NoRows


---------------------------------------------------------------------------
(* C23 as claimed: while a key holds an entry, no step changes the value   *)
(* (fingerprint and user_id) stored under it.                              *)
C23_Immutable ==
    [][\A k \in Keys :
          (store[k].present /\ store'[k].present) => store'[k].val = store[k].val]_vars

(* C23 amended: while a key holds an entry, only a save or an update of    *)
(* that key changes the value stored under it; every other change of the   *)
(* entry is its deletion or the passing of time towards its expiry.        *)
C23_ImmutableUnlessWritten ==
    [][\A k \in Keys :
          (store'[k] # store[k] /\ ~Written(k)) =>
             \/ DeleteSession(k) /\ ~store'[k].present
             \/ Tick /\ store[k].present
                     /\ (store'[k] = NoEntry
                           \/ store'[k] = [store[k] EXCEPT !.ttl = @ - TickSeconds])]_vars

C23_Witness ==
    /\ Fetched /\ op.key = "s1" /\ op.age = TickSeconds
    /\ op.was # None /\ op.was[1] \in SessionData \ {<<"dict", {}>>}
    /\ saved["s1"] = op.was
    /\ store["s1"].present /\ store["s1"].ttl < TTL
    /\ store["s2"].present /\ store["s2"].val = encode(json_dumps(<<"dict", {}>>))


---------------------------------------------------------------------------
(* C22 (as claimed): every dict of device attributes that differs from the *)
(* one just hashed in at least one of the three fields has another         *)
(* fingerprint, also when a field holds the separator.                     *)
C22_Sensitive ==
    op.name = "generate_fingerprint" =>
       \A other \in FieldInfos :
          other # op.info => generate_fingerprint(other) # op.fingerprint

(* C27 (as claimed): on every request, extract_info of the auth service    *)
(* and extract_info of the session service return the same three fields.   *)
C27_SameInput ==
    op.name = "extract_info" => op.issued_info = op.info


---------------------------------------------------------------------------
(* The order of the gateway's steps *)
Computed == fingerprint # ""
Looked == got # <<"nofetch">>

(* C26 as claimed: the fingerprint of the request is computed only once    *)
(* the lookup has returned a dict for the cookie's session_id.             *)
C26_LookupFirst == Computed => FetchedDict

(* C26 amended: the exemption check, then the cookie check, then the       *)
(* fingerprint of the request, then the lookup, then the comparison; a     *)
(* request that ends at the exemption or the cookie check has neither a    *)
(* fingerprint computed nor a lookup made, every lookup follows the        *)
(* computation, and the comparison follows a lookup that returned a dict.  *)
C26_StepOrder ==
    /\ branch = "exempt" => ~NonExempt /\ ~Computed /\ ~Looked
    /\ branch = "no_cookie" => NonExempt /\ ~HasCookie /\ ~Computed /\ ~Looked
    /\ Computed => NonExempt /\ HasCookie /\ fingerprint = RequestFingerprint
    /\ pc = "fetch" => Computed /\ ~Looked
    /\ Looked => Computed /\ got[3] = req.cookie[1]
    /\ branch = "invalid_session" => Looked /\ ~FetchedDict
    /\ branch \in {"mismatch", "verified"} => FetchedDict
    /\ (pc = "done" /\ branch # "error") =>
          branch = (IF start(req) # "fetch" THEN start(req)
                    ELSE verify(get_session(got), fingerprint))

C26_Witness ==
    /\ pc = "done" /\ branch = "invalid_session"
    /\ Computed /\ fingerprint = RequestFingerprint
    /\ got = <<"nil", "never", "s2">>
    /\ RedirectedToAuth /\ ~forwarded

(* C28 (as claimed): when dispatch has returned the redirect to the auth   *)
(* URL, the downstream handler was not invoked for the request.            *)
C28_RedirectNotRun ==
    (pc = "done" /\ RedirectedToAuth) => ~forwarded

(* What dispatch decides from a request and the reply of its fetch alone *)
Decision(request, reply) ==
    IF start(request) # "fetch" THEN start(request)
    ELSE verify(get_session(reply), generate_fingerprint(extract_info(request)))

(* A step of dispatch *)
GatewayStep == pc' # pc

====
